---- MODULE Spec2Model ----
(***************************************************************************)
(* Model of materialdesign/icons/gen.go: the SVG path-data reader           *)
(* (genPathData, scan, normalize), the per-shape emitter (genPath), the     *)
(* per-icon driver (genFile) and the per-directory loop (genDir).           *)
(*                                                                          *)
(* Representation.                                                          *)
(*  - A string is a sequence of one-character strings.                      *)
(*  - A coordinate (float32) is an integer number of hundredths (Unit);     *)
(*    the inputs carry at most two fractional digits and the icon sizes     *)
(*    are those that divide outSize, so every product and difference the    *)
(*    code computes is computed here exactly.                               *)
(*  - An opacity (float32) is a numerator over OpDen = 512; every such      *)
(*    value and its product with 0xff is exact in float32.                  *)
(*  - The iconvg.Encoder is the ordered list of the calls made on it.       *)
(*  - Path data is written with the operator letters, digits, signs, the    *)
(*    period, the comma and the space; Fscanf's exponents, NaN, Inf and hex *)
(*    forms do not occur in the inputs and are not modelled.                *)
(*  - iter counts the turns of genPathData's loop and trace records, per    *)
(*    genPath call of the current icon, its opacity, its register and where *)
(*    its calls lie in enc; the program has neither.                        *)
(***************************************************************************)
EXTENDS Integers, Sequences, FiniteSets, TLC

(* ------------------------------ bounds --------------------------------- *)
MaxIcons == 2
MaxShapes == 2
MaxLen == 3
MaxGroups == 2
MaxIter == 12
MaxOpacities == 257

(* ------------------------- program constants --------------------------- *)
outSize == 48
Unit == 100
OpDen == 512
Uint8 == 256

nil == <<>>

(* ------------------------------ characters ----------------------------- *)
Upper ==
    {"A","B","C","D","E","F","G","H","I","J","K","L","M",
     "N","O","P","Q","R","S","T","U","V","W","X","Y","Z"}

Lower ==
    {"a","b","c","d","e","f","g","h","i","j","k","l","m",
     "n","o","p","q","r","s","t","u","v","w","x","y","z"}

DigitChars == <<"0","1","2","3","4","5","6","7","8","9">>

Digit == {DigitChars[k] : k \in 1..10}

DigitVal(c) == (CHOOSE k \in 1..10 : DigitChars[k] = c) - 1

NUL == "NUL"

(* ------------------------- strings.Reader ------------------------------ *)
\* r = [s |-> the string, i |-> the number of bytes already read]
NewReader(s) == [s |-> s, i |-> 0]

AtEOF(r) == r.i >= Len(r.s)

\* the byte ReadByte returns (0 at EOF)
PeekByte(r) == IF AtEOF(r) THEN NUL ELSE r.s[r.i + 1]

\* ReadByte advances unless at EOF
ReadByte(r) == IF AtEOF(r) THEN r ELSE [r EXCEPT !.i = r.i + 1]

\* UnreadByte steps back one byte whatever the previous read returned;
\* it fails (and does nothing) only at the beginning of the string
UnreadByte(r) == IF r.i <= 0 THEN r ELSE [r EXCEPT !.i = r.i - 1]

(* --------------------------- fmt.Fscanf "%f" --------------------------- *)
\* first position j >= i that is the end of s or holds a character not in set
SpanEnd(s, i, set) ==
    CHOOSE j \in i..Len(s) :
        /\ \A k \in (i + 1)..j : s[k] \in set
        /\ (j = Len(s) \/ s[j + 1] \notin set)

RECURSIVE IntVal(_)
IntVal(ds) ==
    IF ds = <<>> THEN 0
    ELSE 10 * IntVal(SubSeq(ds, 1, Len(ds) - 1)) + DigitVal(ds[Len(ds)])

\* the fraction digits as hundredths
FracVal(ds) ==
    (IF Len(ds) >= 1 THEN 10 * DigitVal(ds[1]) ELSE 0)
    + (IF Len(ds) >= 2 THEN DigitVal(ds[2]) ELSE 0)

\* Fscanf(r, "%f", &x): skip spaces, fail at EOF, read the longest
\* [sign] digits [. digits] token, convert it. What was read stays read
\* when the conversion fails; x is then left as it was.
Fscanf(r) ==
    LET s == r.s
        p == SpanEnd(s, r.i, {" "})
        a == IF p < Len(s) /\ s[p + 1] \in {"+", "-"} THEN p + 1 ELSE p
        b == SpanEnd(s, a, Digit)
        dot == b < Len(s) /\ s[b + 1] = "."
        c == IF dot THEN SpanEnd(s, b + 1, Digit) ELSE b
        ints == SubSeq(s, a + 1, b)
        fracs == IF dot THEN SubSeq(s, b + 2, c) ELSE <<>>
        neg == a > p /\ s[p + 1] = "-"
        mag == IntVal(ints) * Unit + FracVal(fracs)
    IN  IF p >= Len(s)
        THEN [r |-> [r EXCEPT !.i = Len(s)], ok |-> FALSE, val |-> 0]
        ELSE [r |-> [r EXCEPT !.i = c],
              ok |-> Len(ints) + Len(fracs) > 0,
              val |-> IF neg THEN 0 - mag ELSE mag]

(* -------------------------------- scan --------------------------------- *)
\* one turn of scan's outer loop: skip spaces with ReadByte, UnreadByte the
\* byte that ended the skipping (also when that "byte" was EOF), then Fscanf
ScanArg(st, k) ==
    LET r0 == st.r
        j == SpanEnd(r0.s, r0.i, {" "})
        r1 == UnreadByte(ReadByte([r0 EXCEPT !.i = j]))
        f == Fscanf(r1)
    IN  [r |-> f.r,
         args |-> IF f.ok THEN [st.args EXCEPT ![k] = f.val] ELSE st.args]

RECURSIVE ScanFrom(_, _, _)
ScanFrom(st, k, n) ==
    IF k > n THEN st ELSE ScanFrom(ScanArg(st, k), k + 1, n)

\* scan(&args, r, n): returns the new args and reader
scan(args, r, n) == ScanFrom([r |-> r, args |-> args], 1, n)

(* ----------------------------- normalize ------------------------------- *)
\* outSize / size as the code's float32 quotient; exact for the sizes used
Scale(size) == outSize \div size

\* NormArg without the centring of absolute operands
NormArgNoCentre(a, k, n, op, size, offset, relative) ==
    LET scaled == a * Scale(size)
    IN  IF relative THEN scaled
        ELSE IF n # 1 THEN scaled - offset[((k - 1) % 2) + 1]
        ELSE IF op = "H" THEN scaled - offset[1]
        ELSE IF op = "V" THEN scaled - offset[2]
        ELSE scaled

NormArg(a, k, n, op, size, offset, relative) ==
    LET scaled == a * Scale(size)
        centred == scaled - (outSize \div 2) * Unit
    IN  IF relative THEN scaled
        ELSE IF n # 1 THEN centred - offset[((k - 1) % 2) + 1]
        ELSE IF op = "H" THEN centred - offset[1]
        ELSE IF op = "V" THEN centred - offset[2]
        ELSE centred

normalize(args, n, op, size, offset, relative) ==
    [k \in 1..6 |->
        IF k <= n THEN NormArg(args[k], k, n, op, size, offset, relative)
        ELSE args[k]]

(* --------------------------- the drawing sink -------------------------- *)
\* one call on the iconvg.Encoder, with its arguments in order
Call(name, a) == [call |-> name, a |-> a]

\* enc.Bytes(): the encoding of the calls made so far; its length is counted
\* in calls
Bytes(enc) == [data |-> enc, err |-> nil]

(* ----------------------------- genPathData ----------------------------- *)
\* the operand count of the first switch on op; -1 is its default branch
Arity(op) ==
    IF op \in {"L", "l", "T", "t"} THEN 2
    ELSE IF op \in {"Q", "q", "S", "s"} THEN 4
    ELSE IF op \in {"C", "c"} THEN 6
    ELSE IF op \in {"H", "h", "V", "v"} THEN 1
    ELSE IF op \in {"M", "m"} THEN 2
    ELSE IF op \in {"Z", "z"} THEN 0
    ELSE -1

\* the second switch on op: the encoder calls of one command
OpCalls(op, a, started, adj) ==
    IF op = "L" THEN <<Call("AbsLineTo", <<a[1], a[2]>>)>>
    ELSE IF op = "l" THEN <<Call("RelLineTo", <<a[1], a[2]>>)>>
    ELSE IF op = "T" THEN <<Call("AbsSmoothQuadTo", <<a[1], a[2]>>)>>
    ELSE IF op = "t" THEN <<Call("RelSmoothQuadTo", <<a[1], a[2]>>)>>
    ELSE IF op = "Q" THEN <<Call("AbsQuadTo", <<a[1], a[2], a[3], a[4]>>)>>
    ELSE IF op = "q" THEN <<Call("RelQuadTo", <<a[1], a[2], a[3], a[4]>>)>>
    ELSE IF op = "S" THEN <<Call("AbsSmoothCubeTo", <<a[1], a[2], a[3], a[4]>>)>>
    ELSE IF op = "s" THEN <<Call("RelSmoothCubeTo", <<a[1], a[2], a[3], a[4]>>)>>
    ELSE IF op = "C"
        THEN <<Call("AbsCubeTo", <<a[1], a[2], a[3], a[4], a[5], a[6]>>)>>
    ELSE IF op = "c"
        THEN <<Call("RelCubeTo", <<a[1], a[2], a[3], a[4], a[5], a[6]>>)>>
    ELSE IF op = "H" THEN <<Call("AbsHLineTo", <<a[1]>>)>>
    ELSE IF op = "h" THEN <<Call("RelHLineTo", <<a[1]>>)>>
    ELSE IF op = "V" THEN <<Call("AbsVLineTo", <<a[1]>>)>>
    ELSE IF op = "v" THEN <<Call("RelVLineTo", <<a[1]>>)>>
    ELSE IF op = "M"
        THEN IF ~started THEN <<Call("StartPath", <<adj, a[1], a[2]>>)>>
             ELSE <<Call("ClosePathAbsMoveTo", <<a[1], a[2]>>)>>
    ELSE IF op = "m" THEN <<Call("ClosePathRelMoveTo", <<a[1], a[2]>>)>>
    ELSE <<>>

\* strings.HasSuffix(pathData, "z"): the trailing close marker is cut off
StripZ(pathData) ==
    IF Len(pathData) > 0 /\ pathData[Len(pathData)] = "z"
    THEN SubSeq(pathData, 1, Len(pathData) - 1)
    ELSE pathData

\* the locals of genPathData before its loop
PathDataInit(enc, pathData) ==
    [r |-> NewReader(StripZ(pathData)),
     args |-> <<0, 0, 0, 0, 0, 0>>,
     op |-> NUL, relative |-> FALSE, started |-> FALSE,
     enc |-> enc, done |-> FALSE, err |-> nil]

\* OpAfter forgetting the operator when the byte is no letter
OpAfterNoRepeat(st, b) ==
    IF b \in Upper THEN [op |-> b, relative |-> FALSE]
    ELSE IF b \in Lower THEN [op |-> b, relative |-> TRUE]
    ELSE [op |-> NUL, relative |-> FALSE]

\* the letter branch of the loop: which operator is current after byte b
OpAfter(st, b) ==
    IF b \in Upper THEN [op |-> b, relative |-> FALSE]
    ELSE IF b \in Lower THEN [op |-> b, relative |-> TRUE]
    ELSE [op |-> st.op, relative |-> st.relative]

\* one turn of genPathData's for loop
LoopBody(st, adj, size, offset) ==
    LET b == PeekByte(st.r)
        r1 == ReadByte(st.r)
        cur == OpAfter(st, b)
        r2 == IF b \in Upper \cup Lower THEN r1 ELSE UnreadByte(r1)
        n == Arity(cur.op)
        sc == scan(st.args, r2, n)
        a == normalize(sc.args, n, cur.op, size, offset, cur.relative)
    IN  IF AtEOF(st.r) THEN [st EXCEPT !.done = TRUE]
        ELSE IF b = " " THEN [st EXCEPT !.r = r1]
        ELSE IF n < 0
            THEN [st EXCEPT !.r = r2, !.op = cur.op, !.relative = cur.relative,
                            !.done = TRUE, !.err = <<"unknown opcode", b>>]
        ELSE [st EXCEPT !.r = sc.r, !.args = a,
                        !.op = cur.op, !.relative = cur.relative,
                        !.started = st.started \/ cur.op = "M",
                        !.enc = st.enc \o OpCalls(cur.op, a, st.started, adj)]

\* the loop run for at most fuel turns; done is FALSE when it has not
\* returned by then
RECURSIVE RunLoop(_, _, _, _, _)
RunLoop(st, adj, size, offset, fuel) ==
    IF st.done \/ fuel = 0 THEN st
    ELSE RunLoop(LoopBody(st, adj, size, offset), adj, size, offset, fuel - 1)

genPathData(enc, adj, pathData, size, offset) ==
    RunLoop(PathDataInit(enc, pathData), adj, size, offset, MaxIter)

(* ------------------------------- genPath ------------------------------- *)
\* a nil *float32 attribute
NoAttr == -1

\* the zero Path{} genFile passes for circles that no path took
EmptyPath == [D |-> <<>>, Fill |-> "", FillOpacity |-> NoAttr, Opacity |-> NoAttr]

\* opacity := 1, overridden by opacity, else by fill-opacity
OpacityOf(p) ==
    IF p.Opacity # NoAttr THEN p.Opacity
    ELSE IF p.FillOpacity # NoAttr THEN p.FillOpacity
    ELSE OpDen

\* BlendWeight rounding to nearest
BlendWeightRounded(opacity) == (2 * opacity * 255 + OpDen) \div (2 * OpDen)

\* uint8(opacity*0xff): the conversion truncates
BlendWeight(opacity) == (opacity * 255) \div OpDen

\* uint8(len(adjs) + 1)
NextAdj(adjs) == (Cardinality(DOMAIN adjs) + 1) % Uint8

\* ResolveAdj without the lookup: every shape that is not opaque takes the
\* next register
ResolveAdjNoReuse(p, adjs) ==
    LET opacity == OpacityOf(p)
        fresh == NextAdj(adjs)
    IN  IF opacity = OpDen
        THEN [adj |-> 0, adjs |-> adjs, calls |-> <<>>]
        ELSE [adj |-> fresh,
              adjs |-> [o \in DOMAIN adjs \cup {opacity} |->
                           IF o = opacity THEN fresh ELSE adjs[o]],
              calls |-> <<Call("SetCReg",
                              <<fresh, 0, BlendWeight(opacity), 127, 128>>)>>]

\* the head of genPath: the register of the shape's opacity, the map after
\* it, and the SetCReg call made when the opacity is new
ResolveAdj(p, adjs) ==
    LET opacity == OpacityOf(p)
        fresh == NextAdj(adjs)
    IN  IF opacity = OpDen
        THEN [adj |-> 0, adjs |-> adjs, calls |-> <<>>]
        ELSE IF opacity \in DOMAIN adjs
        THEN [adj |-> adjs[opacity], adjs |-> adjs, calls |-> <<>>]
        ELSE [adj |-> fresh,
              adjs |-> [o \in DOMAIN adjs \cup {opacity} |->
                           IF o = opacity THEN fresh ELSE adjs[o]],
              calls |-> <<Call("SetCReg",
                              <<fresh, 0, BlendWeight(opacity), 127, 128>>)>>]

\* the calls for one circle: two relative half-turn arcs after a StartPath
\* or a ClosePathAbsMoveTo at its leftmost point
CircleCalls(c, needStartPath, adj, size, offset) ==
    LET cx == (c.Cx * outSize) \div size - ((outSize \div 2) * Unit + offset[1])
        cy == (c.Cy * outSize) \div size - ((outSize \div 2) * Unit + offset[2])
        rr == (c.R * outSize) \div size
    IN  << IF needStartPath THEN Call("StartPath", <<adj, cx - rr, cy>>)
           ELSE Call("ClosePathAbsMoveTo", <<cx - rr, cy>>),
           Call("RelArcTo", <<rr, rr, 0, 0, 1, 2 * rr, 0>>),
           Call("RelArcTo", <<rr, rr, 0, 0, 1, 0 - 2 * rr, 0>>) >>

\* the loop over circles
RECURSIVE CirclesFrom(_, _, _, _, _, _)
CirclesFrom(circles, k, needStartPath, adj, size, offset) ==
    IF k > Len(circles) THEN <<>>
    ELSE CircleCalls(circles[k], needStartPath, adj, size, offset)
         \o CirclesFrom(circles, k + 1, FALSE, adj, size, offset)

\* the tail of genPath: the circles, then ClosePathEndPath
PathTail(circles, needStartPath, adj, size, offset) ==
    CirclesFrom(circles, 1, needStartPath, adj, size, offset)
    \o <<Call("ClosePathEndPath", <<>>)>>

\* genPath as a whole; hung is TRUE when genPathData did not return within
\* MaxIter turns
genPath(enc, p, adjs, size, offset, circles) ==
    LET ra == ResolveAdj(p, adjs)
        enc1 == enc \o ra.calls
        pd == genPathData(enc1, ra.adj, p.D, size, offset)
    IN  IF p.D = <<>>
        THEN [enc |-> enc1 \o PathTail(circles, TRUE, ra.adj, size, offset),
              adjs |-> ra.adjs, err |-> nil, hung |-> FALSE]
        ELSE IF ~pd.done
        THEN [enc |-> pd.enc, adjs |-> ra.adjs, err |-> nil, hung |-> TRUE]
        ELSE IF pd.err # nil
        THEN [enc |-> pd.enc, adjs |-> ra.adjs, err |-> pd.err, hung |-> FALSE]
        ELSE [enc |-> pd.enc \o PathTail(circles, FALSE, ra.adj, size, offset),
              adjs |-> ra.adjs, err |-> nil, hung |-> FALSE]

(* ------------------------------- genFile ------------------------------- *)
\* "M16 34h22v4H16z"
ScannerRect ==
    <<"M","1","6"," ","3","4","h","2","2","v","4","H","1","6","z">>

\* "M20.36 18"
LoneMove == <<"M","2","0",".","3","6"," ","1","8">>

skippedPaths == [d \in {ScannerRect, LoneMove} |->
                    IF d = ScannerRect THEN "#fff" ELSE ""]

\* Skipped taking an empty fill in the exclusion set for no entry
SkippedUnlessEmptyFill(p) ==
    /\ p.D \in DOMAIN skippedPaths
    /\ skippedPaths[p.D] # ""
    /\ skippedPaths[p.D] = p.Fill

\* fill, ok := skippedPaths[p.D]; ok && fill == p.Fill
Skipped(p) == p.D \in DOMAIN skippedPaths /\ skippedPaths[p.D] = p.Fill

\* the first token of the viewBox that strconv.ParseFloat rejects, 0 if none
ViewBoxBad(vb) ==
    IF \E k \in 1..Len(vb) : ~vb[k].ok
    THEN CHOOSE k \in 1..Len(vb) :
            ~vb[k].ok /\ \A j \in 1..(k - 1) : vb[j].ok
    ELSE 0

\* offset := {vbx * outSize / size, vby * outSize / size}
OffsetOf(vb, size) ==
    LET vbx == IF Len(vb) >= 1 THEN vb[1].v ELSE 0
        vby == IF Len(vb) >= 2 THEN vb[2].v ELSE 0
    IN  <<(vbx * outSize) \div size, (vby * outSize) \div size>>

\* what stops genFile before its loop over the paths, nil if nothing does
LoadErr(icon) ==
    IF icon.load = "noFile" THEN <<"ReadFile">>
    ELSE IF icon.load = "badXML" THEN <<"xml.Unmarshal">>
    ELSE IF ViewBoxBad(icon.ViewBox) # 0 THEN <<"strconv.ParseFloat">>
    ELSE nil

\* the loop over g.Paths from its k-th turn on
RECURSIVE PathsFrom(_, _, _)
PathsFrom(g, k, icon) ==
    IF k > Len(icon.Paths) \/ g.err # nil \/ g.hung THEN g
    ELSE IF Skipped(icon.Paths[k]) THEN PathsFrom(g, k + 1, icon)
    ELSE LET gp == genPath(g.enc, icon.Paths[k], g.adjs, icon.size,
                           OffsetOf(icon.ViewBox, icon.size), g.circles)
         IN  PathsFrom([enc |-> gp.enc, adjs |-> gp.adjs,
                        circles |-> IF gp.err = nil /\ ~gp.hung THEN <<>>
                                    ELSE g.circles,
                        err |-> gp.err, hung |-> gp.hung], k + 1, icon)

\* genFile as a whole: its error, and the calls made on its encoder
genFile(icon) ==
    LET g0 == [enc |-> <<>>, adjs |-> <<>>, circles |-> icon.Circles,
               err |-> nil, hung |-> FALSE]
        g1 == PathsFrom(g0, 1, icon)
        gp == genPath(g1.enc, EmptyPath, g1.adjs, icon.size,
                      OffsetOf(icon.ViewBox, icon.size), g1.circles)
    IN  IF LoadErr(icon) # nil
        THEN [enc |-> <<>>, err |-> LoadErr(icon), hung |-> FALSE]
        ELSE IF g1.err # nil \/ g1.hung \/ Len(g1.circles) = 0
        THEN [enc |-> g1.enc, err |-> g1.err, hung |-> g1.hung]
        ELSE [enc |-> gp.enc, err |-> gp.err, hung |-> gp.hung]

(* ------------------------------- pngSize ------------------------------- *)
\* png maps the sizes whose ic_..._black_<size>dp.png exists to its length;
\* the sizes are tried from the largest, skipping those above targetSize
pngSize(png, targetSize) ==
    LET have == {s \in DOMAIN png : s \in {48, 24, 18} /\ s <= targetSize}
        best == CHOOSE s \in have : \A u \in have : u <= s
    IN  IF have = {} THEN [n |-> 0, found |-> FALSE]
        ELSE [n |-> png[best], found |-> TRUE]

(* ------------------------------- state --------------------------------- *)
VARIABLES
    icons,            \* genDir: the icons of the directory, in baseName order
    idx,              \* genDir: the icon the loop is at
    err,              \* genDir: what the last genFile returned
    pc,               \* which loop the program is in
    out,              \* the generated source: one entry per "var ... = []byte{"
    failures,
    varNames,
    totalFiles,
    totalIVGBytes,
    totalPNG24Bytes,
    totalPNG48Bytes,
    totalSVGBytes,
    enc,              \* genFile: the calls made on its iconvg.Encoder
    adjs,             \* genFile: opacity -> cReg adj value
    circles,          \* genFile: g.Circles
    offset,           \* genFile: offset
    pidx,             \* genFile: the path the loop is at
    adj,              \* genPath: adj
    r,                \* genPathData: the strings.Reader
    args,             \* genPathData: args
    op,               \* genPathData: op
    relative,         \* genPathData: relative
    started,          \* genPathData: started
    iter,             \* genPathData: turns of the loop taken so far
    trace             \* one entry per genPath call of the current icon

dirVars ==
    <<out, failures, varNames, totalFiles, totalIVGBytes, totalPNG24Bytes,
      totalPNG48Bytes, totalSVGBytes>>

fileVars == <<enc, adjs, circles, offset, pidx, trace>>

pathVars == <<adj, r, args, op, relative, started, iter>>

vars == <<icons, idx, err, pc, dirVars, fileVars, pathVars>>

\* the path genPath is working on: the one the loop is at, or the empty
\* Path{} of the call that follows the loop
CurPath ==
    IF pidx <= Len(icons[idx].Paths) THEN icons[idx].Paths[pidx] ELSE EmptyPath

\* genPathData's locals as one record
Locals ==
    [r |-> r, args |-> args, op |-> op, relative |-> relative,
     started |-> started, enc |-> enc, done |-> FALSE, err |-> nil]

(* ------------------------------ actions -------------------------------- *)
\* ReturnErr counting the failed icon as a file
ReturnErrCounted(e) ==
    /\ failures' = Append(failures, [icon |-> idx, cause |-> e])
    /\ err' = e
    /\ idx' = idx + 1
    /\ pc' = "genDir"
    /\ totalFiles' = totalFiles + 1
    /\ UNCHANGED <<totalIVGBytes, totalPNG24Bytes, totalPNG48Bytes,
                   totalSVGBytes>>

\* genFile returned err to genDir: the failure is recorded, the totals are
\* left alone, and the loop goes on
ReturnErr(e) ==
    /\ failures' = Append(failures, [icon |-> idx, cause |-> e])
    /\ err' = e
    /\ idx' = idx + 1
    /\ pc' = "genDir"
    /\ UNCHANGED <<totalFiles, totalIVGBytes, totalPNG24Bytes,
                   totalPNG48Bytes, totalSVGBytes>>

\* genDir takes the next icon and genFile runs up to its loop over the paths
GenFileBegin ==
    /\ pc = "genDir"
    /\ idx <= Len(icons)
    /\ LET icon == icons[idx]
           e == LoadErr(icon)
           opened == icon.load # "noFile"
       IN  /\ out' = IF opened THEN Append(out, [var |-> idx, data |-> <<>>])
                     ELSE out
           /\ varNames' = IF opened THEN Append(varNames, idx) ELSE varNames
           /\ enc' = <<>>
           /\ trace' = <<>>
           /\ IF e # nil
              THEN /\ ReturnErr(e)
                   /\ UNCHANGED <<adjs, circles, offset, pidx>>
              ELSE /\ adjs' = <<>>
                   /\ circles' = icon.Circles
                   /\ offset' = OffsetOf(icon.ViewBox, icon.size)
                   /\ pidx' = 1
                   /\ pc' = "genFile"
                   /\ UNCHANGED <<idx, err, failures, totalFiles, totalIVGBytes,
                                  totalPNG24Bytes, totalPNG48Bytes,
                                  totalSVGBytes>>
    /\ UNCHANGED <<icons, pathVars>>

\* a path of the exclusion set: continue
SkipPath ==
    /\ pc = "genFile"
    /\ pidx <= Len(icons[idx].Paths)
    /\ Skipped(CurPath)
    /\ pidx' = pidx + 1
    /\ UNCHANGED <<icons, idx, err, pc, dirVars, enc, adjs, circles, offset,
                   trace, pathVars>>

\* genPath is called, for a path or for the circles left after the loop, and
\* runs up to the loop of genPathData or, with no path data, to its circles
GenPathBegin ==
    /\ pc = "genFile"
    /\ \/ pidx <= Len(icons[idx].Paths) /\ ~Skipped(CurPath)
       \/ pidx > Len(icons[idx].Paths) /\ Len(circles) # 0
    /\ LET ra == ResolveAdj(CurPath, adjs)
           st == PathDataInit(enc \o ra.calls, CurPath.D)
       IN  /\ adj' = ra.adj
           /\ adjs' = ra.adjs
           /\ enc' = enc \o ra.calls
           /\ trace' = Append(trace, [opacity |-> OpacityOf(CurPath),
                                      adj |-> ra.adj,
                                      from |-> Len(enc), to |-> -1])
           /\ r' = st.r
           /\ args' = st.args
           /\ op' = st.op
           /\ relative' = st.relative
           /\ started' = st.started
           /\ iter' = 0
           /\ pc' = IF CurPath.D # <<>> THEN "genPathData" ELSE "genPath"
    /\ UNCHANGED <<icons, idx, err, dirVars, circles, offset, pidx>>

\* one turn of the loop of genPathData; an error goes up through genPath and
\* genFile to genDir
GenPathDataLoop ==
    /\ pc = "genPathData"
    /\ iter < MaxIter
    /\ LET st == LoopBody(Locals, adj, icons[idx].size, offset)
       IN  /\ r' = st.r
           /\ args' = st.args
           /\ op' = st.op
           /\ relative' = st.relative
           /\ started' = st.started
           /\ enc' = st.enc
           /\ iter' = iter + 1
           /\ IF st.err # nil
              THEN /\ ReturnErr(st.err)
                   /\ UNCHANGED <<out, varNames>>
              ELSE /\ pc' = IF st.done THEN "genPath" ELSE "genPathData"
                   /\ UNCHANGED <<idx, err, dirVars>>
    /\ UNCHANGED <<icons, adjs, circles, offset, pidx, trace, adj>>

\* the rest of genPath: the circles and ClosePathEndPath; back in genFile the
\* circles are dropped and the loop goes on
GenPathEnd ==
    /\ pc = "genPath"
    /\ enc' = enc \o PathTail(circles, CurPath.D = <<>>, adj,
                              icons[idx].size, offset)
    /\ trace' = [trace EXCEPT ![Len(trace)].to = Len(enc')]
    /\ circles' = <<>>
    /\ pidx' = IF pidx <= Len(icons[idx].Paths) THEN pidx + 1 ELSE pidx
    /\ pc' = "genFile"
    /\ UNCHANGED <<icons, idx, err, dirVars, adjs, offset, pathVars>>

\* the end of genFile: the bytes are written and counted; genDir adds the
\* PNG sizes, each lookup that finds nothing adding a failure
GenFileEnd ==
    /\ pc = "genFile"
    /\ pidx > Len(icons[idx].Paths)
    /\ Len(circles) = 0
    /\ LET icon == icons[idx]
           ivg == Bytes(enc)
           p24 == pngSize(icon.png, 24)
           p48 == pngSize(icon.png, 48)
           noPNG == [icon |-> idx, cause |-> <<"no PNG found">>]
       IN  /\ out' = [out EXCEPT ![Len(out)].data = ivg.data]
           /\ totalFiles' = totalFiles + 1
           /\ totalSVGBytes' = totalSVGBytes + icon.svgLen
           /\ totalIVGBytes' = totalIVGBytes + Len(ivg.data)
           /\ totalPNG24Bytes' = totalPNG24Bytes + p24.n
           /\ totalPNG48Bytes' = totalPNG48Bytes + p48.n
           /\ failures' = failures
                          \o (IF p24.found THEN <<>> ELSE <<noPNG>>)
                          \o (IF p48.found THEN <<>> ELSE <<noPNG>>)
    /\ err' = nil
    /\ idx' = idx + 1
    /\ pc' = "genDir"
    /\ UNCHANGED <<icons, varNames, fileVars, pathVars>>

\* the loop of genDir is over
GenDirEnd ==
    /\ pc = "genDir"
    /\ idx > Len(icons)
    /\ pc' = "done"
    /\ UNCHANGED <<icons, idx, err, dirVars, fileVars, pathVars>>

Next ==
    \/ GenFileBegin
    \/ SkipPath
    \/ GenPathBegin
    \/ GenPathDataLoop
    \/ GenPathEnd
    \/ GenFileEnd
    \/ GenDirEnd

(* ------------------------------- inputs -------------------------------- *)
SeqsUpTo(S, n) == UNION {[1..k -> S] : k \in 0..n}

\* the decimal digits of j < 100
Digits(j) ==
    IF j < 10 THEN <<DigitChars[j + 1]>>
    ELSE <<DigitChars[(j \div 10) + 1], DigitChars[(j % 10) + 1]>>

\* a well-formed viewBox "x y w h"
ViewBox(x, y, w, h) ==
    <<[ok |-> TRUE, v |-> x * Unit], [ok |-> TRUE, v |-> y * Unit],
      [ok |-> TRUE, v |-> w * Unit], [ok |-> TRUE, v |-> h * Unit]>>

\* the viewBox of an <svg> that has none: one empty token
NoViewBox == <<[ok |-> FALSE, v |-> 0]>>

PngAll == [s \in {18, 24, 48} |-> 10 * s]

PngNone == <<>>

Plain == [Fill |-> "", FillOpacity |-> NoAttr, Opacity |-> NoAttr]

Half == [Fill |-> "#fff", FillOpacity |-> OpDen \div 2, Opacity |-> NoAttr]

Quarter == [Fill |-> "", FillOpacity |-> OpDen \div 2, Opacity |-> OpDen \div 4]

Shape(d, at) ==
    [D |-> d, Fill |-> at.Fill, FillOpacity |-> at.FillOpacity,
     Opacity |-> at.Opacity]

Circle(cx, cy, rad) == [Cx |-> cx * Unit, Cy |-> cy * Unit, R |-> rad * Unit]

Icon(size, vb, paths, cs) ==
    [load |-> "ok", size |-> size, ViewBox |-> vb, Paths |-> paths,
     Circles |-> cs, svgLen |-> 100, png |-> PngAll]

\* "M10 10L20 10L20 20Z"
Triangle ==
    <<"M","1","0"," ","1","0","L","2","0"," ","1","0",
      "L","2","0"," ","2","0","Z">>

\* "Q 1 2 3"
ShortQuad == <<"Q"," ","1"," ","2"," ","3">>

\* "M1 2A3"
ArcPath == <<"M","1"," ","2","A","3">>

(* icons made of up to MaxShapes shapes *)
ShapeSet == {Shape(d, at) : d \in {<<>>, Triangle, ScannerRect, LoneMove},
                            at \in {Plain, Half, Quarter}}

Frames ==
    {[size |-> 24, vb |-> ViewBox(0, 0, 24, 24), cs |-> <<>>],
     [size |-> 48, vb |-> ViewBox(2, 4, 48, 48),
      cs |-> <<Circle(12, 12, 2), Circle(30, 12, 3)>>]}

ShapeIcons ==
    {Icon(f.size, f.vb, ps, f.cs) : f \in Frames, ps \in SeqsUpTo(ShapeSet, MaxShapes)}

(* icons of one shape whose path data is any short string *)
TokAlphabet == {"M", "l", "Q", "Z", " ", "1", ","}

TokIcons ==
    {Icon(24, ViewBox(0, 0, 24, 24), <<Shape(d, Plain)>>, <<>>) :
        d \in SeqsUpTo(TokAlphabet, MaxLen)}

(* icons of one shape: an operator followed by complete operand groups *)
ArgOps ==
    {"L", "l", "T", "t", "Q", "q", "S", "s", "C", "c", "H", "h", "V", "v",
     "M", "m"}

\* operands from .. to, each after the separator sep
RECURSIVE Operands(_, _, _)
Operands(from, to, sep) ==
    IF from > to THEN <<>>
    ELSE <<sep>> \o Digits(from) \o Operands(from + 1, to, sep)

\* the letter once, then k groups
Compact(c) == <<c.op>> \o Operands(1, c.k * Arity(c.op), c.sep)

\* the letter before each of the k groups
RECURSIVE ExpandedFrom(_, _)
ExpandedFrom(c, g) ==
    IF g > c.k THEN <<>>
    ELSE (IF g > 1 /\ c.sep = " " THEN <<" ">> ELSE <<>>)
         \o <<c.op>>
         \o Operands((g - 1) * Arity(c.op) + 1, g * Arity(c.op), c.sep)
         \o ExpandedFrom(c, g + 1)

Expanded(c) == ExpandedFrom(c, 1)

RepeatCases ==
    {[op |-> o, k |-> k, sep |-> s] :
        o \in ArgOps, k \in 1..MaxGroups, s \in {" ", "-"}}

RepeatIcons ==
    {Icon(24, ViewBox(0, 0, 24, 24), <<Shape(d, Plain)>>, <<>>) :
        d \in {Compact(c) : c \in RepeatCases}
              \cup {Expanded(c) : c \in RepeatCases}}

(* icons of one shape: an operator whose last group is cut short *)
TruncCases ==
    {c \in [op : ArgOps, have : 1..5] : c.have < Arity(c.op)}

Truncated(c) == <<c.op>> \o Operands(1, c.have, " ")

TruncIcons ==
    {Icon(24, ViewBox(0, 0, 24, 24), <<Shape(Truncated(c), Plain)>>, <<>>) :
        c \in TruncCases}

(* one icon of MaxOpacities shapes, each of another opacity *)
ManyOpacities ==
    Icon(24, ViewBox(0, 0, 24, 24),
         [j \in 1..MaxOpacities |->
            [D |-> <<"M","1"," ","2","z">>, Fill |-> "",
             FillOpacity |-> j, Opacity |-> NoAttr]],
         <<>>)

(* directories of up to MaxIcons icons of a catalogue *)
Catalogue ==
    {Icon(24, ViewBox(0, 0, 24, 24), <<Shape(Triangle, Plain)>>, <<>>),
     [Icon(24, ViewBox(0, 0, 24, 24),
           <<Shape(Triangle, Half), Shape(Triangle, Half)>>, <<>>)
        EXCEPT !.png = PngNone],
     Icon(24, ViewBox(0, 0, 24, 24), <<Shape(ShortQuad, Plain)>>, <<>>),
     Icon(48, ViewBox(0, 0, 48, 48),
          <<Shape(Triangle, Quarter), Shape(ArcPath, Half)>>, <<>>),
     Icon(24, NoViewBox, <<Shape(Triangle, Plain)>>, <<>>),
     [Icon(24, ViewBox(0, 0, 24, 24), <<Shape(Triangle, Plain)>>, <<>>)
        EXCEPT !.load = "noFile"],
     [Icon(24, ViewBox(0, 0, 24, 24), <<>>, <<>>)
        EXCEPT !.load = "badXML"],
     Icon(12, ViewBox(0, 0, 12, 12), <<>>, <<Circle(6, 6, 3)>>),
     [Icon(48, ViewBox(0, 0, 48, 48),
           <<Shape(ScannerRect, Half), Shape(Triangle, Quarter)>>,
           <<Circle(12, 12, 2)>>)
        EXCEPT !.png = [s \in {24} |-> 240]]}

IconLists ==
    SeqsUpTo(Catalogue, MaxIcons)
    \cup {<<i>> : i \in ShapeIcons \cup TokIcons \cup RepeatIcons
                        \cup TruncIcons \cup {ManyOpacities}}

Init ==
    /\ icons \in IconLists
    /\ idx = 1
    /\ err = nil
    /\ pc = "genDir"
    /\ out = <<>>
    /\ failures = <<>>
    /\ varNames = <<>>
    /\ totalFiles = 0
    /\ totalIVGBytes = 0
    /\ totalPNG24Bytes = 0
    /\ totalPNG48Bytes = 0
    /\ totalSVGBytes = 0
    /\ enc = <<>>
    /\ adjs = <<>>
    /\ circles = <<>>
    /\ offset = <<0, 0>>
    /\ pidx = 1
    /\ adj = 0
    /\ r = NewReader(<<>>)
    /\ args = <<0, 0, 0, 0, 0, 0>>
    /\ op = NUL
    /\ relative = FALSE
    /\ started = FALSE
    /\ iter = 0
    /\ trace = <<>>

Spec == Init /\ [][Next]_vars

(* ----------------------------- properties ------------------------------ *)
\* the skip policy, read off the exclusion set
MatchesPolicy(p) ==
    \E d \in DOMAIN skippedPaths : p.D = d /\ p.Fill = skippedPaths[d]

\* genFile has returned for icon idx - 1, and enc, adjs and trace are as it
\* left them
Returned == pc \in {"genDir", "done"} /\ idx > 1

LastIcon == icons[idx - 1]

\* the positions from + 1 .. to of enc that hold a call named n
Named(n, from, to) == {k \in (from + 1)..to : enc[k].call = n}

\* where the calls of the t-th genPath call end: at its return, or where
\* the next call begins, or at the end of enc
SegEnd(t) ==
    IF trace[t].to # -1 THEN trace[t].to
    ELSE IF t < Len(trace) THEN trace[t + 1].from
    ELSE Len(enc)

\* C1: the calls of every genPath call that returned hold exactly one
\* StartPath, before every drawing, arc and close-and-move call of the shape,
\* and exactly one ClosePathEndPath, which is the last call.
C1_OneStartOneClose ==
    \A t \in 1..Len(trace) :
        trace[t].to # -1 =>
            LET from == trace[t].from
                to == trace[t].to
                starts == Named("StartPath", from, to)
            IN  /\ Cardinality(starts) = 1
                /\ \A k \in (from + 1)..to :
                      (\E s \in starts : k < s) => enc[k].call = "SetCReg"
                /\ Named("ClosePathEndPath", from, to) = {to}

\* the distinct non-default opacities of the shapes of an icon that are not
\* skipped
Opacities(icon) ==
    {OpacityOf(icon.Paths[k]) :
        k \in {j \in 1..Len(icon.Paths) : ~MatchesPolicy(icon.Paths[j])}}
    \ {OpDen}

\* C2: no SetCReg call carries id 0 or an id an earlier SetCReg call of the
\* icon carried, and an icon of more than 255 distinct non-default opacities
\* ends as a recorded RegisterOverflowError failure.
C2_OverflowFails ==
    /\ \A k \in Named("SetCReg", 0, Len(enc)) :
          /\ enc[k].a[1] # 0
          /\ \A j \in Named("SetCReg", 0, k - 1) : enc[j].a[1] # enc[k].a[1]
    /\ \A i \in 1..(idx - 1) :
          Cardinality(Opacities(icons[i])) > Uint8 - 1 =>
              \E f \in 1..Len(failures) :
                  failures[f] = [icon |-> i, cause |-> <<"RegisterOverflowError">>]

\* C3: path data that ends inside a group of operands makes its icon fail,
\* and no command is emitted for the group.
C3_TruncatedGroupFails ==
    \A c \in TruncCases :
        (/\ Returned
         /\ LastIcon.load = "ok"
         /\ ViewBoxBad(LastIcon.ViewBox) = 0
         /\ Len(LastIcon.Paths) = 1
         /\ LastIcon.Paths[1].D = Truncated(c)
         /\ ~MatchesPolicy(LastIcon.Paths[1]))
        => /\ err # nil
           /\ \A k \in 1..Len(enc) : enc[k].call = "SetCReg"

\* C10: every turn of the loop of genPathData returns or moves the reader
\* forward.
C10_LoopAdvances ==
    [][pc = "genPathData" => (pc' # "genPathData" \/ r'.i > r.i)]_vars

\* "M10 10L20 10L20 20Z" alone in an icon of native size 24 whose viewBox
\* starts at (0,0)
IsScenarioA(icon) ==
    /\ icon.load = "ok"
    /\ icon.size = 24
    /\ ViewBoxBad(icon.ViewBox) = 0
    /\ Len(icon.ViewBox) >= 2
    /\ icon.ViewBox[1].v = 0
    /\ icon.ViewBox[2].v = 0
    /\ icon.Paths = <<Shape(Triangle, Plain)>>
    /\ icon.Circles = <<>>

LineTos == {"AbsLineTo", "RelLineTo", "AbsHLineTo", "RelHLineTo",
            "AbsVLineTo", "RelVLineTo"}

\* C6 as the spec states it: the path starts at (-14,-14).
C6_ScenarioA_Spec ==
    (Returned /\ IsScenarioA(LastIcon)) =>
        /\ err = nil
        /\ Len(enc) = 4
        /\ enc[1].call = "StartPath"
        /\ enc[1].a[2] = (0 - 14) * Unit
        /\ enc[1].a[3] = (0 - 14) * Unit
        /\ enc[2].call \in LineTos
        /\ enc[3].call \in LineTos
        /\ enc[4].call = "ClosePathEndPath"

\* C6 amended: the path starts at (10*48/24 - 24, 10*48/24 - 24) = (-4,-4);
\* then the two lines to (16,-4) and (16,16), then ClosePathEndPath, and
\* nothing else.
C6_ScenarioA ==
    (Returned /\ IsScenarioA(LastIcon)) =>
        /\ err = nil
        /\ enc = <<Call("StartPath", <<0, (0 - 4) * Unit, (0 - 4) * Unit>>),
                   Call("AbsLineTo", <<16 * Unit, (0 - 4) * Unit>>),
                   Call("AbsLineTo", <<16 * Unit, 16 * Unit>>),
                   Call("ClosePathEndPath", <<>>)>>

C6_Witness == Returned /\ IsScenarioA(LastIcon) /\ Len(enc) = 4

\* round(v * 255) and floor(v * 255) of an opacity v
Round255(v) == (2 * v * 255 + OpDen) \div (2 * OpDen)

Floor255(v) == (v * 255) \div OpDen

\* an icon of two shapes, both of opacity 0.5, neither skipped
IsScenarioB(icon) ==
    /\ icon.load = "ok"
    /\ ViewBoxBad(icon.ViewBox) = 0
    /\ Len(icon.Paths) = 2
    /\ \A k \in 1..2 : /\ ~MatchesPolicy(icon.Paths[k])
                       /\ 2 * OpacityOf(icon.Paths[k]) = OpDen

C5_RegisterReuse ==
    /\ \A s, t \in 1..Len(trace) :
          trace[s].opacity = trace[t].opacity => trace[s].adj = trace[t].adj
    /\ \A t \in 1..Len(trace) :
          LET from == trace[t].from
              first == /\ trace[t].opacity # OpDen
                       /\ \A s \in 1..(t - 1) :
                             trace[s].opacity # trace[t].opacity
          IN  /\ trace[t].opacity = OpDen => trace[t].adj = 0
              /\ Named("SetCReg", from, SegEnd(t)) =
                    (IF first THEN {from + 1} ELSE {})
              /\ first => enc[from + 1].a[1] = trace[t].adj
              /\ \A k \in Named("StartPath", from, SegEnd(t)) :
                    enc[k].a[1] = trace[t].adj
    /\ Cardinality(Named("SetCReg", 0, Len(enc)))
         = Cardinality({trace[t].opacity : t \in 1..Len(trace)} \ {OpDen})

C5_Witness ==
    \E s, t \in 1..Len(trace) :
        /\ s < t
        /\ trace[s].opacity = trace[t].opacity
        /\ trace[t].opacity # OpDen
        /\ trace[t].to # -1
        /\ Named("StartPath", trace[t].from, trace[t].to) # {}

\* an icon whose only shape has the path data d
HasPathData(icon, d) ==
    /\ icon.load = "ok"
    /\ ViewBoxBad(icon.ViewBox) = 0
    /\ Len(icon.Paths) = 1
    /\ icon.Paths[1] = Shape(d, Plain)
    /\ icon.Circles = <<>>

\* C7: an operator letter followed by k complete groups of operands gives
\* the calls of the letter written before each group.
C7_ImplicitRepeat ==
    \A c \in RepeatCases :
        (Returned /\ HasPathData(LastIcon, Compact(c))) =>
            LET e == genPathData(<<>>, 0, Expanded(c), LastIcon.size,
                                 OffsetOf(LastIcon.ViewBox, LastIcon.size))
            IN  /\ e.done
                /\ e.err = nil
                /\ err = nil
                /\ Len(e.enc) = c.k
                /\ enc = e.enc \o <<Call("ClosePathEndPath", <<>>)>>

C7_Witness ==
    \E c \in RepeatCases :
        /\ c.k >= 2
        /\ Arity(c.op) = 6
        /\ Returned
        /\ HasPathData(LastIcon, Compact(c))
        /\ Len(enc) = c.k + 1

\* an icon without its k-th path
Without(icon, k) ==
    [icon EXCEPT !.Paths = SubSeq(icon.Paths, 1, k - 1)
                           \o SubSeq(icon.Paths, k + 1, Len(icon.Paths))]

\* C8: a shape that matches the skip policy leaves no mark. At the head of
\* the loop over the paths, the registers are those of the shapes before it
\* that do not match, the circles are still pending if there was no such
\* shape, and no call was made since the last of them returned; and when
\* genFile returns, its error and its calls are those of the icon without
\* the matching shape.
C8_SkipFrame ==
    /\ (pc = "genFile" /\ pidx <= Len(icons[idx].Paths) + 1) =>
          LET ps == icons[idx].Paths
              kept == {j \in 1..(pidx - 1) : ~MatchesPolicy(ps[j])}
              tail == Len(trace) - Cardinality(kept)
          IN  /\ tail \in {0, 1}
              /\ tail = 1 => pidx > Len(ps) /\ icons[idx].Circles # <<>>
              /\ DOMAIN adjs = {OpacityOf(ps[j]) : j \in kept} \ {OpDen}
              /\ circles = IF kept = {} /\ tail = 0 THEN icons[idx].Circles
                           ELSE <<>>
              /\ Len(enc) = IF trace = <<>> THEN 0 ELSE trace[Len(trace)].to
    /\ Returned =>
          \A k \in 1..Len(LastIcon.Paths) :
              MatchesPolicy(LastIcon.Paths[k]) =>
                  LET res == genFile(Without(LastIcon, k))
                  IN  ~res.hung /\ res.err = err /\ res.enc = enc

C8_Witness ==
    /\ Returned
    /\ err = nil
    /\ Len(LastIcon.Paths) = 2
    /\ MatchesPolicy(LastIcon.Paths[1])
    /\ OpacityOf(LastIcon.Paths[1]) # OpDen
    /\ OpacityOf(LastIcon.Paths[2]) # OpDen
    /\ LastIcon.Paths[2].D # <<>>
    /\ LastIcon.Circles # <<>>
    /\ Len(enc) > 4

\* what an icon adds to the totals: nothing when genFile fails for it
Gain(icon) ==
    LET res == genFile(icon)
    IN  IF res.err # nil
        THEN [files |-> 0, svg |-> 0, ivg |-> 0, png24 |-> 0, png48 |-> 0]
        ELSE [files |-> 1, svg |-> icon.svgLen,
              ivg |-> Len(Bytes(res.enc).data),
              png24 |-> pngSize(icon.png, 24).n,
              png48 |-> pngSize(icon.png, 48).n]

\* the totals of the first n icons
RECURSIVE TotalUpTo(_)
TotalUpTo(n) ==
    IF n = 0
    THEN [files |-> 0, svg |-> 0, ivg |-> 0, png24 |-> 0, png48 |-> 0]
    ELSE LET sum == TotalUpTo(n - 1)
             g == Gain(icons[n])
         IN  [files |-> sum.files + g.files, svg |-> sum.svg + g.svg,
              ivg |-> sum.ivg + g.ivg, png24 |-> sum.png24 + g.png24,
              png48 |-> sum.png48 + g.png48]

\* C9: of the icons genFile has returned for, each one that fails has one
\* entry in the failure list, with its cause, and adds nothing to the totals;
\* each one that succeeds has the bytes it has when it is alone; and when
\* genDir is done, genFile has returned for every icon.
C9_FailureIsolation ==
    /\ \A i \in 1..(idx - 1) :
          LET res == genFile(icons[i])
              mine == {f \in 1..Len(failures) : failures[f].icon = i}
          IN  /\ ~res.hung
              /\ res.err # nil =>
                    /\ Cardinality(mine) = 1
                    /\ \A f \in mine : failures[f].cause = res.err
              /\ res.err = nil =>
                    /\ \A f \in mine : failures[f].cause = <<"no PNG found">>
                    /\ \E o \in 1..Len(out) :
                          out[o] = [var |-> i, data |-> Bytes(res.enc).data]
    /\ [files |-> totalFiles, svg |-> totalSVGBytes, ivg |-> totalIVGBytes,
        png24 |-> totalPNG24Bytes, png48 |-> totalPNG48Bytes]
          = TotalUpTo(idx - 1)
    /\ pc = "done" => idx = Len(icons) + 1

C9_Witness ==
    /\ pc = "done"
    /\ Len(icons) = 2
    /\ genFile(icons[1]).err = <<"unknown opcode", "A">>
    /\ genFile(icons[2]).err = nil
    /\ Len(icons[2].Paths) = 2
    /\ Len(failures) = 1
    /\ totalFiles = 1

====
